---- MODULE Spec2Model ----
(***************************************************************************)
(* Model of wiki_search.py: the exturlusage crawl with introduction        *)
(* detection (Phase 1), the sort|uniq de-duplication of (lang, user)       *)
(* pairs, and the user info / contributions fetch (Phase 2).               *)
(*                                                                         *)
(* Text is modelled as a sequence of one-character strings, so that the    *)
(* substring test, the line formatting and the line parsing are computed   *)
(* and not assumed.  Python's None for the introduction result is the      *)
(* record field none = TRUE; the empty string '' of a timestamp is 0.      *)
(***************************************************************************)
EXTENDS Integers, Sequences, FiniteSets, TLC

VARIABLES
    main_pc,        \* position of main(): "phase1", "dedup", "phase2", "finished"
    p1,             \* Phase-1 tasks: (lang, domain) -> state of process_lang_domain_pair
    cache,          \* lru_cache of find_introduction_user_cached
    locks,          \* main_writer_lock, tmp_file_lock, user_info_lock: holder or NoTask
    results_file,   \* rows written to MAIN_RESULTS_OUTPUT
    tmp_file,       \* lines written to TMP_USER_PAIRS_FILE
    unique_pairs,   \* the list read back from UNIQUE_USER_PAIRS_FILE
    p2,             \* Phase-2 tasks: index into unique_pairs -> state of process_user_pair
    user_info_file, \* rows written to USER_INFO_OUTPUT
    contrib_files,  \* filename -> rows, the per-user contribution files
    obs,            \* observations of the run: scans started and values returned per
                    \* key, keys evicted, keys a call returned and not evicted since
                    \* (memo), keys looked up again after their eviction (rescans),
                    \* keys of scans cut short by a fault and not evicted since
                    \* (absent), pairs written
    args,           \* arguments of the function under test (function-level specifications)
    ret             \* <<>> before the call, <<result>> after it

vars == <<main_pc, p1, cache, locks, results_file, tmp_file,
          unique_pairs, p2, user_info_file, contrib_files, obs, args, ret>>

sysvars == <<main_pc, p1, cache, locks, results_file, tmp_file,
             unique_pairs, p2, user_info_file, contrib_files, obs>>

-----------------------------------------------------------------------------
(* Bounds of the function-level specifications *)

MaxRevs == 3          \* revisions in a generated history
MaxPageLen == 2       \* items per generated response page
MaxPages == 3         \* response pages of a generated stream
MaxLimit == 3         \* largest contribution cap tried
MaxNameLen == 2       \* characters of a generated user name

-----------------------------------------------------------------------------
(* Text *)

Min(S) == CHOOSE x \in S : \A y \in S : x <= y

RECURSIVE Flatten(_)
Flatten(ss) == IF ss = <<>> THEN <<>> ELSE Head(ss) \o Flatten(Tail(ss))

Prefix(s, n) == SubSeq(s, 1, IF n < Len(s) THEN n ELSE Len(s))

\* Python's `url in content` on str: url occurs as a contiguous substring.
Contains(content, url) ==
    \E i \in 0..(Len(content) - Len(url)) :
        SubSeq(content, i + 1, i + Len(url)) = url

-----------------------------------------------------------------------------
(* The upstream API: a query is answered page by page.  The pages of a     *)
(* stream are numbered from 1; the response for page i carries the         *)
(* continuation token i + 1 when a further page exists and none otherwise. *)
(* A request without token (NoToken) is answered with page 1.              *)

NoToken == 0

\* How one request is answered: "ok" (status 200, the page), "transport"
\* (session.get raises), "status" (status != 200), "badjson" (status 200,
\* r.json() raises), "noquery" (status 200, a JSON body without "query" and
\* without "continue").
Outcomes == {"ok", "transport", "status", "badjson", "noquery"}

ServerPage(pages, tok) ==
    LET i == IF tok = NoToken THEN 1 ELSE tok IN
    IF i \in 1..Len(pages)
    THEN [items |-> pages[i], cont |-> IF i < Len(pages) THEN i + 1 ELSE NoToken]
    ELSE [items |-> <<>>, cont |-> NoToken]

-----------------------------------------------------------------------------
(* fetch_all_revisions and find_introduction_user *)

\* A revision entry of the answer.  rev["timestamp"] and rev["slots"]["main"]
\* are subscripts: an entry without the key makes the generator raise
\* KeyError.  An entry without "timestamp" is a record without that field,
\* one without "slots"/"main" a record without the field content.
WellFormed(rev) == {"timestamp", "content"} \subseteq DOMAIN rev

\* the entries of the answer before the first one that raises
Yieldable(revs) ==
    LET bad == {i \in 1..Len(revs) : ~WellFormed(revs[i])} IN
    IF bad = {} THEN revs ELSE SubSeq(revs, 1, Min(bad) - 1)

\* the dict yielded for an entry: rev.get("user", "")
YieldRev(rev) ==
    [timestamp |-> rev.timestamp,
     user |-> IF "user" \in DOMAIN rev THEN rev.user ELSE <<>>,
     content |-> rev.content]

YieldRevs(revs) == [i \in 1..Len(Yieldable(revs)) |-> YieldRev(revs[i])]

\* the rvcontinue token of the answer is dropped: the loop ends after one page
fetch_all_revisions_page_nocont(hist, tok, outcome) ==
    CASE outcome \in {"transport", "status"} ->
            [kind |-> "end", revs |-> <<>>, bad |-> FALSE, cont |-> NoToken]
      [] outcome = "badjson" ->
            [kind |-> "raise", revs |-> <<>>, bad |-> FALSE, cont |-> NoToken]
      [] outcome = "noquery" ->
            [kind |-> "page", revs |-> <<>>, bad |-> FALSE, cont |-> NoToken]
      [] OTHER ->
            LET data == ServerPage(hist, tok) IN
            [kind |-> "page", revs |-> YieldRevs(data.items),
             bad |-> Yieldable(data.items) # data.items, cont |-> NoToken]

\* One iteration of the `while True` of fetch_all_revisions: the request with
\* the current rvcontinue token and what the generator does with the answer.
\*   kind "end":   the loop breaks before yielding (exception / status != 200)
\*   kind "raise": r.json() raises, the exception leaves the generator
\*   kind "page":  the revisions are yielded; cont is the next token, or
\*                 NoToken when the loop breaks after them; bad tells that
\*                 the entry after them raises KeyError when it is reached
fetch_all_revisions_page(hist, tok, outcome) ==
    CASE outcome \in {"transport", "status"} ->
            [kind |-> "end", revs |-> <<>>, bad |-> FALSE, cont |-> NoToken]
      [] outcome = "badjson" ->
            [kind |-> "raise", revs |-> <<>>, bad |-> FALSE, cont |-> NoToken]
      [] outcome = "noquery" ->
            [kind |-> "page", revs |-> <<>>, bad |-> FALSE, cont |-> NoToken]
      [] OTHER ->
            LET data == ServerPage(hist, tok) IN
            [kind |-> "page", revs |-> YieldRevs(data.items),
             bad |-> Yieldable(data.items) # data.items, cont |-> data.cont]

\* fetch_all_revisions consumed to its end: what it yields, the tokens it
\* sends, and whether an exception leaves it.
RECURSIVE fetch_all_revisions_from(_, _, _, _, _)
fetch_all_revisions_from(hist, outcomes, tok, reqs, yielded) ==
    LET pg == fetch_all_revisions_page(hist, tok, outcomes[Len(reqs) + 1])
        sent == Append(reqs, tok)
    IN
    CASE pg.kind = "end" -> [raised |-> FALSE, yielded |-> yielded, reqs |-> sent]
      [] pg.kind = "raise" -> [raised |-> TRUE, yielded |-> yielded, reqs |-> sent]
      [] OTHER ->
            IF pg.bad
            THEN [raised |-> TRUE, yielded |-> yielded \o pg.revs, reqs |-> sent]
            ELSE IF pg.cont # NoToken
            THEN fetch_all_revisions_from(hist, outcomes, pg.cont, sent,
                                          yielded \o pg.revs)
            ELSE [raised |-> FALSE, yielded |-> yielded \o pg.revs, reqs |-> sent]

fetch_all_revisions(hist, outcomes) ==
    fetch_all_revisions_from(hist, outcomes, NoToken, <<>>, <<>>)

NoneResult == [none |-> TRUE, user |-> <<>>, timestamp |-> 0]

\* prev_present starts out True: a link of the first revision is not seen
PrevPresentInit_true == TRUE

PrevPresentInit == FALSE

\* The body of the `for rev in ...` loop of find_introduction_user over the
\* revisions of one yielded page: the index of the revision at which it
\* returns (0 when it does not) and prev_present after the page.
RECURSIVE ScanRevs(_, _, _, _)
ScanRevs(revs, url, prev_present, i) ==
    IF i > Len(revs) THEN [at |-> 0, prev_present |-> prev_present]
    ELSE LET present == Contains(revs[i].content, url) IN
         IF present /\ ~prev_present
         THEN [at |-> i, prev_present |-> prev_present]
         ELSE ScanRevs(revs, url, present, i + 1)

\* find_introduction_user(url, lang, page_title) run against the history
\* `hist` of the page, request n being answered as outcomes[n].
\* st = [tok, prev_present, reqs, examined]: reqs are the tokens sent so far,
\* examined the number of revisions the loop body has looked at.
RECURSIVE find_introduction_user_from(_, _, _, _)
find_introduction_user_from(url, hist, outcomes, st) ==
    LET n == Len(st.reqs) + 1
        reqs == Append(st.reqs, st.tok)
        pg == fetch_all_revisions_page(hist, st.tok, outcomes[n])
    IN
    CASE pg.kind = "end" ->
            [raised |-> FALSE, value |-> NoneResult, reqs |-> reqs,
             examined |-> st.examined]
      [] pg.kind = "raise" ->
            [raised |-> TRUE, value |-> NoneResult, reqs |-> reqs,
             examined |-> st.examined]
      [] OTHER ->
            LET sc == ScanRevs(pg.revs, url, st.prev_present, 1) IN
            IF sc.at # 0
            THEN [raised |-> FALSE,
                  value |-> [none |-> FALSE, user |-> pg.revs[sc.at].user,
                             timestamp |-> pg.revs[sc.at].timestamp],
                  reqs |-> reqs, examined |-> st.examined + sc.at]
            ELSE IF pg.bad
            THEN [raised |-> TRUE, value |-> NoneResult, reqs |-> reqs,
                  examined |-> st.examined + Len(pg.revs)]
            ELSE IF pg.cont # NoToken
            THEN find_introduction_user_from(url, hist, outcomes,
                    [tok |-> pg.cont, prev_present |-> sc.prev_present,
                     reqs |-> reqs, examined |-> st.examined + Len(pg.revs)])
            ELSE [raised |-> FALSE, value |-> NoneResult, reqs |-> reqs,
                  examined |-> st.examined + Len(pg.revs)]

\* the history is fetched whole before it is scanned
find_introduction_user_buffered(url, hist, outcomes) ==
    LET all == fetch_all_revisions(hist, outcomes)
        sc == ScanRevs(all.yielded, url, PrevPresentInit, 1)
    IN [raised |-> all.raised,
        value |-> IF sc.at # 0 /\ ~all.raised
                  THEN [none |-> FALSE, user |-> all.yielded[sc.at].user,
                        timestamp |-> all.yielded[sc.at].timestamp]
                  ELSE NoneResult,
        reqs |-> all.reqs,
        examined |-> IF sc.at # 0 THEN sc.at ELSE Len(all.yielded)]

find_introduction_user(url, hist, outcomes) ==
    find_introduction_user_from(url, hist, outcomes,
        [tok |-> NoToken, prev_present |-> PrevPresentInit, reqs |-> <<>>,
         examined |-> 0])

\* Every request answered with status 200 and a JSON body.
AllOk == [n \in 1..(MaxPages + 2) |-> "ok"]

-----------------------------------------------------------------------------
(* fetch_exturlusage *)

\* page_title.replace(' ', '_')
ReplaceSpaces(title) ==
    [i \in 1..Len(title) |-> IF title[i] = " " THEN "_" ELSE title[i]]

\* The record yielded for one item of the exturlusage list.
UsageRecord(lang, domain, item) ==
    [lang |-> lang, domain |-> domain, url |-> item.url,
     page_title |-> item.title,
     wiki_link |-> <<lang, ReplaceSpaces(item.title)>>]

UsageRecords(lang, domain, items) ==
    [i \in 1..Len(items) |-> UsageRecord(lang, domain, items[i])]

\* session.get outside the try: a transport exception leaves the generator
fetch_exturlusage_page_notry(lang, domain, pages, tok, outcome) ==
    CASE outcome \in {"status", "noquery"} ->
            [kind |-> "end", records |-> <<>>, cont |-> NoToken]
      [] outcome \in {"badjson", "transport"} ->
            [kind |-> "raise", records |-> <<>>, cont |-> NoToken]
      [] OTHER ->
            LET data == ServerPage(pages, tok) IN
            [kind |-> "page", records |-> UsageRecords(lang, domain, data.items),
             cont |-> data.cont]

\* One iteration of the `while True` of fetch_exturlusage.
fetch_exturlusage_page(lang, domain, pages, tok, outcome) ==
    CASE outcome \in {"transport", "status", "noquery"} ->
            [kind |-> "end", records |-> <<>>, cont |-> NoToken]
      [] outcome = "badjson" ->
            [kind |-> "raise", records |-> <<>>, cont |-> NoToken]
      [] OTHER ->
            LET data == ServerPage(pages, tok) IN
            [kind |-> "page", records |-> UsageRecords(lang, domain, data.items),
             cont |-> data.cont]

\* fetch_exturlusage consumed to its end.
RECURSIVE fetch_exturlusage_from(_, _, _, _, _, _, _)
fetch_exturlusage_from(lang, domain, pages, outcomes, tok, reqs, yielded) ==
    LET pg == fetch_exturlusage_page(lang, domain, pages, tok, outcomes[Len(reqs) + 1])
        sent == Append(reqs, tok)
    IN
    CASE pg.kind = "end" -> [raised |-> FALSE, yielded |-> yielded, reqs |-> sent]
      [] pg.kind = "raise" -> [raised |-> TRUE, yielded |-> yielded, reqs |-> sent]
      [] OTHER ->
            IF pg.cont # NoToken
            THEN fetch_exturlusage_from(lang, domain, pages, outcomes, pg.cont,
                                        sent, yielded \o pg.records)
            ELSE [raised |-> FALSE, yielded |-> yielded \o pg.records, reqs |-> sent]

fetch_exturlusage(lang, domain, pages, outcomes) ==
    fetch_exturlusage_from(lang, domain, pages, outcomes, NoToken, <<>>, <<>>)

-----------------------------------------------------------------------------
(* fetch_user_contributions *)

\* The `while True` of fetch_user_contributions from the request with token
\* tok on, `contributions` holding what the earlier pages gave.
\* the slice forgotten: everything collected is returned
Truncate_all(contributions, limit) == contributions

\* contributions[:limit]
Truncate(contributions, limit) == Prefix(contributions, limit)

\* the test against the cap is dropped: every page is requested
CapReached_never(contributions, limit) == FALSE

\* len(contributions) >= limit
CapReached(contributions, limit) == Len(contributions) >= limit

RECURSIVE fetch_user_contributions_from(_, _, _, _, _, _)
fetch_user_contributions_from(pages, limit, outcomes, tok, reqs, contributions) ==
    LET outcome == outcomes[Len(reqs) + 1]
        sent == Append(reqs, tok)
    IN
    CASE outcome \in {"transport", "badjson"} ->
            \* the exception reaches `except Exception`: return []
            [value |-> <<>>, reqs |-> sent]
      [] outcome = "status" ->
            [value |-> Truncate(contributions, limit), reqs |-> sent]
      [] outcome = "noquery" ->
            [value |-> Truncate(contributions, limit), reqs |-> sent]
      [] OTHER ->
            LET data == ServerPage(pages, tok)
                all == contributions \o data.items
            IN
            IF data.cont # NoToken /\ ~CapReached(all, limit)
            THEN fetch_user_contributions_from(pages, limit, outcomes,
                                               data.cont, sent, all)
            ELSE [value |-> Truncate(all, limit), reqs |-> sent]

fetch_user_contributions(pages, limit, outcomes) ==
    fetch_user_contributions_from(pages, limit, outcomes, NoToken, <<>>, <<>>)

-----------------------------------------------------------------------------
(* Configuration (wiki_search.py, lines 25-27 and 165) *)

MAX_WORKERS == 5
USER_CONTRIB_LIMIT == 10
\* maxsize of the lru_cache.  The program sets 1024; the model bounds the
\* cache to one entry so that the three keys of the run evict one another.
maxsize == 1

-----------------------------------------------------------------------------
(* The run that is model-checked: the input lists and the upstream data *)

EN == <<"e", "n">>
language_codes == <<EN>>
domains == <<"d1.org", "d2.org">>

U1 == <<"d", "1">>                \* the external url both domains match
T1 == <<"A", " ", "b">>           \* page titles
T2 == <<"Q">>
T3 == <<"Z">>
UserA == <<"A">>
UserB == <<"B", " ", "b">>
UserC == <<"C", ",", "c">>

\* exturlusage pages per (lang, domain)
Usage(lang, domain) ==
    IF domain = "d1.org"
    THEN << <<[url |-> U1, title |-> T1]>>, <<[url |-> U1, title |-> T2]>> >>
    ELSE << <<[url |-> U1, title |-> T1], [url |-> U1, title |-> T3]>> >>

\* revision pages per (lang, page title), oldest revision first; the
\* revision of T3 has its user hidden: the entry carries no "user"
History(lang, page_title) ==
    IF page_title = T1
    THEN << <<[timestamp |-> 1, user |-> UserA, content |-> <<"x">>]>>,
            <<[timestamp |-> 2, user |-> UserB, content |-> <<"x", "d", "1">>],
              [timestamp |-> 3, user |-> UserC, content |-> <<"d", "1", "y">>]>> >>
    ELSE IF page_title = T2
    THEN << <<[timestamp |-> 4, user |-> UserC, content |-> <<"d", "1">>]>> >>
    ELSE << <<[timestamp |-> 5, content |-> <<"d", "1">>]>> >>

\* the requests a stream of these pages can need: one per page
Requests(pages) == 1..(IF Len(pages) = 0 THEN 1 ELSE Len(pages))

-----------------------------------------------------------------------------
(* Phase 1 *)

NoTask == 0

\* the (lang, domain) pairs in the order main() submits them
RECURSIVE Cross(_, _)
Cross(ls, ds) ==
    IF ls = <<>> THEN <<>>
    ELSE [i \in 1..Len(ds) |-> [lang |-> Head(ls), domain |-> ds[i]]] \o Cross(Tail(ls), ds)

Phase1Pairs == Cross(language_codes, domains)
Tasks1 == 1..Len(Phase1Pairs)

Key(record) == [lang |-> record.lang, page_title |-> record.page_title, url |-> record.url]

ItemsOf(t) == Flatten(Usage(Phase1Pairs[t].lang, Phase1Pairs[t].domain))

AllKeys ==
    UNION {{[lang |-> Phase1Pairs[t].lang, page_title |-> ItemsOf(t)[i].title,
             url |-> ItemsOf(t)[i].url] : i \in 1..Len(ItemsOf(t))} : t \in Tasks1}

NoRecord == [lang |-> <<>>, domain |-> "", url |-> <<>>, page_title |-> <<>>,
             wiki_link |-> <<>>, user |-> <<>>, timestamp |-> 0]

Pending1 == [pc |-> "pending", tok |-> NoToken, queue |-> <<>>, cont |-> NoToken,
             record |-> NoRecord, count |-> 0]

Finished(task) == task.pc \in {"done", "failed"}
Running(task) == task.pc \notin {"pending", "done", "failed"}

\* record['user'] = user if user else ''; record['timestamp'] = ts if ts else ''
Enrich(record, value) ==
    [lang |-> record.lang, domain |-> record.domain, url |-> record.url,
     page_title |-> record.page_title, wiki_link |-> record.wiki_link,
     user |-> IF value.none THEN <<>> ELSE value.user,
     timestamp |-> IF value.none THEN 0 ELSE value.timestamp]

\* The `for record in fetch_exturlusage(...)` loop asking for its next record:
\* the next one of the page in hand, else the next page, else the end.
NextRecord(task) ==
    IF task.queue # <<>>
    THEN [task EXCEPT !.pc = "lookup", !.record = Head(task.queue),
                      !.queue = Tail(task.queue)]
    ELSE IF task.cont # NoToken
    THEN [task EXCEPT !.pc = "fetch", !.tok = task.cont, !.cont = NoToken]
    ELSE [task EXCEPT !.pc = "done"]

(* functools.lru_cache(maxsize): entries oldest first *)

CacheHas(c, key) == \E i \in 1..Len(c) : c[i].key = key
CacheIndex(c, key) == CHOOSE i \in 1..Len(c) : c[i].key = key
CacheGet(c, key) == c[CacheIndex(c, key)].value

Without(c, i) == SubSeq(c, 1, i - 1) \o SubSeq(c, i + 1, Len(c))

\* a hit moves the entry to the most recently used end
CacheTouch(c, key) == Append(Without(c, CacheIndex(c, key)), c[CacheIndex(c, key)])

\* no bound: the oldest entry is never evicted
CacheStore_unbounded(c, key, value) ==
    IF CacheHas(c, key) THEN c
    ELSE Append(c, [key |-> key, value |-> value])

\* after the wrapped call returned: keep an entry another thread stored
\* meanwhile, else evict the oldest entry of a full cache and store
CacheStore(c, key, value) ==
    IF CacheHas(c, key) THEN c
    ELSE IF Len(c) >= maxsize
    THEN Append(Tail(c), [key |-> key, value |-> value])
    ELSE Append(c, [key |-> key, value |-> value])

Evicts(c, key) == ~CacheHas(c, key) /\ Len(c) >= maxsize

Observe(o, key, value) ==
    [o EXCEPT !.returned[key] = @ \cup {value}]

\* a worker thread of the pool takes the submitted task
Start1(t) ==
    /\ p1[t].pc = "pending"
    /\ Cardinality({u \in Tasks1 : Running(p1[u])}) < MAX_WORKERS
    /\ p1' = [p1 EXCEPT ![t].pc = "fetch"]
    /\ UNCHANGED <<main_pc, cache, locks, results_file, tmp_file, unique_pairs,
                   p2, user_info_file, contrib_files, obs, args, ret>>

\* fetch_exturlusage requests its next page for the loop of the task
FetchUsage(t) ==
    /\ p1[t].pc = "fetch"
    /\ \E outcome \in Outcomes :
        LET pair == Phase1Pairs[t]
            pg == fetch_exturlusage_page(pair.lang, pair.domain,
                      Usage(pair.lang, pair.domain), p1[t].tok, outcome)
        IN p1' = [p1 EXCEPT ![t] =
                    CASE pg.kind = "end" -> [@ EXCEPT !.pc = "done"]
                      [] pg.kind = "raise" -> [@ EXCEPT !.pc = "failed"]
                      [] OTHER -> NextRecord([@ EXCEPT !.queue = pg.records,
                                                       !.cont = pg.cont])]
    /\ UNCHANGED <<main_pc, cache, locks, results_file, tmp_file, unique_pairs,
                   p2, user_info_file, contrib_files, obs, args, ret>>

\* find_introduction_user_cached is called: a hit returns the stored value,
\* a miss enters find_introduction_user
Lookup(t) ==
    /\ p1[t].pc = "lookup"
    /\ LET key == Key(p1[t].record) IN
        IF CacheHas(cache, key)
        THEN /\ cache' = CacheTouch(cache, key)
             /\ p1' = [p1 EXCEPT ![t].pc = "lock_main",
                                 ![t].record = Enrich(@, CacheGet(cache, key))]
             /\ obs' = Observe(obs, key, CacheGet(cache, key))
        ELSE /\ cache' = cache
             /\ p1' = [p1 EXCEPT ![t].pc = "scan"]
             /\ obs' = [obs EXCEPT !.scans[key] = @ + 1,
                                   !.rescans = IF key \in obs.evicted
                                               THEN @ \cup {key} ELSE @]
    /\ UNCHANGED <<main_pc, locks, results_file, tmp_file, unique_pairs,
                   p2, user_info_file, contrib_files, args, ret>>

\* the scan ended on a request that failed (transport or status fault)
\* without having found the url
Truncated(r, outcomes) ==
    ~r.raised /\ r.value.none /\ outcomes[Len(r.reqs)] \in {"transport", "status"}

\* find_introduction_user runs to its return; lru_cache stores the value
Scan(t) ==
    /\ p1[t].pc = "scan"
    /\ LET key == Key(p1[t].record)
           hist == History(key.lang, key.page_title)
       IN \E outcomes \in [Requests(hist) -> Outcomes] :
            LET r == find_introduction_user(key.url, hist, outcomes) IN
            IF r.raised
            THEN /\ p1' = [p1 EXCEPT ![t].pc = "failed"]
                 /\ UNCHANGED <<cache, obs>>
            ELSE /\ cache' = CacheStore(cache, key, r.value)
                 /\ p1' = [p1 EXCEPT ![t].pc = "lock_main",
                                     ![t].record = Enrich(@, r.value)]
                 /\ obs' = [Observe(obs, key, r.value) EXCEPT
                               !.evicted = IF Evicts(cache, key)
                                           THEN @ \cup {Head(cache).key} ELSE @,
                               !.memo = IF Evicts(cache, key)
                                        THEN (@ \cup {key}) \ {Head(cache).key}
                                        ELSE @ \cup {key},
                               !.absent =
                                    (IF Truncated(r, outcomes) THEN @ \cup {key} ELSE @)
                                    \ (IF Evicts(cache, key) THEN {Head(cache).key}
                                        ELSE {})]
    /\ UNCHANGED <<main_pc, locks, results_file, tmp_file, unique_pairs,
                   p2, user_info_file, contrib_files, args, ret>>

\* the write is entered without waiting for main_writer_lock
AcquireMain_nolock(t) ==
    /\ p1[t].pc = "lock_main"
    /\ locks' = [locks EXCEPT !.main = t]
    /\ p1' = [p1 EXCEPT ![t].pc = "write_row"]
    /\ UNCHANGED <<main_pc, cache, results_file, tmp_file, unique_pairs,
                   p2, user_info_file, contrib_files, obs, args, ret>>

\* with main_writer_lock: (acquire)
AcquireMain(t) ==
    /\ p1[t].pc = "lock_main"
    /\ locks.main = NoTask
    /\ locks' = [locks EXCEPT !.main = t]
    /\ p1' = [p1 EXCEPT ![t].pc = "write_row"]
    /\ UNCHANGED <<main_pc, cache, results_file, tmp_file, unique_pairs,
                   p2, user_info_file, contrib_files, obs, args, ret>>

\* the row is written and main_writer_lock is never released
WriteRow_keeplock(t) ==
    /\ p1[t].pc = "write_row"
    /\ results_file' = Append(results_file, p1[t].record)
    /\ p1' = [p1 EXCEPT ![t] =
                IF @.record.user # <<>>
                THEN [@ EXCEPT !.pc = "lock_tmp"]
                ELSE NextRecord([@ EXCEPT !.count = @ + 1])]
    /\ UNCHANGED <<main_pc, cache, locks, tmp_file, unique_pairs,
                   p2, user_info_file, contrib_files, obs, args, ret>>

\* `if record['user']` dropped: a pair line is written for every record
WriteRow_nocheck(t) ==
    /\ p1[t].pc = "write_row"
    /\ results_file' = Append(results_file, p1[t].record)
    /\ locks' = [locks EXCEPT !.main = NoTask]
    /\ p1' = [p1 EXCEPT ![t].pc = "lock_tmp"]
    /\ UNCHANGED <<main_pc, cache, tmp_file, unique_pairs,
                   p2, user_info_file, contrib_files, obs, args, ret>>

\* writer.writerow(record), release of main_writer_lock, `if record['user']`
WriteRow(t) ==
    /\ p1[t].pc = "write_row"
    /\ results_file' = Append(results_file, p1[t].record)
    /\ locks' = [locks EXCEPT !.main = NoTask]
    /\ p1' = [p1 EXCEPT ![t] =
                IF @.record.user # <<>>
                THEN [@ EXCEPT !.pc = "lock_tmp"]
                ELSE NextRecord([@ EXCEPT !.count = @ + 1])]
    /\ UNCHANGED <<main_pc, cache, tmp_file, unique_pairs,
                   p2, user_info_file, contrib_files, obs, args, ret>>

\* with tmp_file_lock: (acquire)
AcquireTmp(t) ==
    /\ p1[t].pc = "lock_tmp"
    /\ locks.tmp = NoTask
    /\ locks' = [locks EXCEPT !.tmp = t]
    /\ p1' = [p1 EXCEPT ![t].pc = "write_pair"]
    /\ UNCHANGED <<main_pc, cache, results_file, tmp_file, unique_pairs,
                   p2, user_info_file, contrib_files, obs, args, ret>>

\* f"{lang},{record['user']}\n"
FormatPair(lang, user) == lang \o <<",">> \o user \o <<"\n">>

\* tmp_file_handle.write(...), release of tmp_file_lock, count += 1
WritePair(t) ==
    /\ p1[t].pc = "write_pair"
    /\ tmp_file' = Append(tmp_file, FormatPair(Phase1Pairs[t].lang, p1[t].record.user))
    /\ locks' = [locks EXCEPT !.tmp = NoTask]
    /\ p1' = [p1 EXCEPT ![t] = NextRecord([@ EXCEPT !.count = @ + 1])]
    /\ obs' = [obs EXCEPT !.pairs = @ \cup {<<Phase1Pairs[t].lang, p1[t].record.user>>}]
    /\ UNCHANGED <<main_pc, cache, results_file, unique_pairs,
                   p2, user_info_file, contrib_files, args, ret>>

-----------------------------------------------------------------------------
(* main(): the end of Phase 1 and the de-duplication *)

\* fut.result() outside a try: the first failed task ends main()
WorkerError_reraise(failed, next) == IF failed THEN "aborted" ELSE next

\* try: fut.result() / except Exception: print(...) in the as_completed loop:
\* a failed task is reported and main() goes on to `next`
WorkerError(failed, next) == next

\* the pool is not waited for: main() goes on while tasks still run
LeavePhase1_nowait ==
    /\ main_pc = "phase1"
    /\ main_pc' = "dedup"
    /\ UNCHANGED <<p1, cache, locks, results_file, tmp_file, unique_pairs,
                   p2, user_info_file, contrib_files, obs, args, ret>>

\* the `with ThreadPoolExecutor` block of Phase 1 is left (and the two output
\* files closed) once every future is done
LeavePhase1 ==
    /\ main_pc = "phase1"
    /\ \A t \in Tasks1 : Finished(p1[t])
    /\ main_pc' = WorkerError(\E t \in Tasks1 : p1[t].pc = "failed", "dedup")
    /\ UNCHANGED <<p1, cache, locks, results_file, tmp_file, unique_pairs,
                   p2, user_info_file, contrib_files, obs, args, ret>>

\* byte order of the characters that occur in the run
CharOrder == <<"\n", " ", ",", ".", "1", "A", "B", "C", "Q", "_", "b", "c",
               "d", "e", "n", "x", "y">>
Ord(c) == CHOOSE i \in 1..Len(CharOrder) : CharOrder[i] = c

\* a < b in byte order
LexLess(a, b) ==
    \E p \in 1..Len(b) :
        /\ \A q \in 1..(p - 1) : q <= Len(a) /\ a[q] = b[q]
        /\ (p > Len(a) \/ (a[p] # b[p] /\ Ord(a[p]) < Ord(b[p])))

\* the elements of seq at the positions `kept`, in order
Select(seq, kept) ==
    [r \in 1..Cardinality(kept) |->
        seq[CHOOSE i \in kept : Cardinality({j \in kept : j <= i}) = r]]

\* sort
SortLines(lines) ==
    LET Rank(j) == 1 + Cardinality({k \in 1..Len(lines) :
                        \/ LexLess(lines[k], lines[j])
                        \/ (lines[k] = lines[j] /\ k < j)})
    IN [i \in 1..Len(lines) |-> lines[CHOOSE j \in 1..Len(lines) : Rank(j) = i]]

\* sort without uniq
Uniq_keep(lines) == lines

\* uniq: of each run of equal adjacent lines the first is kept
Uniq(lines) ==
    Select(lines, {i \in 1..Len(lines) : i = 1 \/ lines[i] # lines[i - 1]})

Whitespace == {" ", "\n"}

Max(S) == CHOOSE x \in S : \A y \in S : x >= y

Inked(str) == {i \in 1..Len(str) : str[i] \notin Whitespace}

\* str.strip()
Strip(line) ==
    IF Inked(line) = {} THEN <<>>
    ELSE SubSeq(line, Min(Inked(line)), Max(Inked(line)))

\* lang, user = line.split(',', 1)
SplitPair(line) ==
    LET i == Min({j \in 1..Len(line) : line[j] = ","}) IN
    <<SubSeq(line, 1, i - 1), SubSeq(line, i + 1, Len(line))>>

\* the loop over the lines of UNIQUE_USER_PAIRS_FILE: every line that is not
\* empty once stripped gives a pair
ReadPairs(lines) ==
    LET kept == {i \in 1..Len(lines) : Strip(lines[i]) # <<>>} IN
    [r \in 1..Cardinality(kept) |->
        CHOOSE pair \in {SplitPair(line) :
                            line \in {Strip(Select(lines, kept)[r])}} : TRUE]

\* os.system("sort TMP | uniq > UNIQUE") and the read back, stage by stage
UniquePairs(file) ==
    CHOOSE pairs \in {ReadPairs(u) : u \in {Uniq(s) : s \in {SortLines(file)}}} : TRUE

Pending2 == [pc |-> "pending", info |-> <<>>, contribs |-> <<>>]

\* sort | uniq, the read back, `if not unique_pairs: return`, and the submit
\* of one process_user_pair per pair
Dedup ==
    /\ main_pc = "dedup"
    /\ \E pairs \in {UniquePairs(tmp_file)} :
        /\ unique_pairs' = pairs
        /\ IF pairs = <<>>
           THEN main_pc' = "finished" /\ p2' = p2
           ELSE main_pc' = "phase2" /\ p2' = [i \in 1..Len(pairs) |-> Pending2]
    /\ UNCHANGED <<p1, cache, locks, results_file, tmp_file,
                   user_info_file, contrib_files, obs, args, ret>>

-----------------------------------------------------------------------------
(* Phase 2 *)

\* list=users answer for a user, and the usercontribs pages (newest first);
\* `minor` tells whether the contribution carries the optional key "minor"
UserInfo(lang, user) == [userid |-> 7, name |-> user]

Contribs(lang, user) ==
    IF user = UserB
    THEN << <<[revid |-> 31, minor |-> FALSE]>>, <<[revid |-> 30, minor |-> TRUE]>> >>
    ELSE IF user = UserC
    THEN << <<[revid |-> 41, minor |-> TRUE], [revid |-> 40, minor |-> FALSE]>> >>
    ELSE <<>>

EmptyInfo == [userid |-> 0, name |-> <<>>]

\* fetch_user_info: users_data[0], or {} on any fault or when the answer
\* holds no user
fetch_user_info(lang, user, outcome) ==
    IF outcome = "ok" THEN UserInfo(lang, user) ELSE EmptyInfo

\* the row write_user_info builds from info (with _Lang and _User set)
InfoRow(lang, user, info) ==
    [kind |-> "row", _Lang |-> lang, _User |-> user, userid |-> info.userid,
     name |-> info.name]

HeaderRow == [kind |-> "header", _Lang |-> <<>>, _User |-> <<>>, userid |-> 0,
              name |-> <<>>]

\* write_user_info: the header goes first into a file that does not exist
write_user_info(file, row) ==
    IF file = <<>> THEN <<HeaderRow, row>> ELSE Append(file, row)

\* the characters of the model for which c.isalnum() holds
AlNum == {"1", "A", "B", "C", "Q", "b", "c", "d", "e", "n", "x", "y"}

\* str.rstrip()
RStrip(str) ==
    IF Inked(str) = {} THEN <<>> ELSE SubSeq(str, 1, Max(Inked(str)))

\* "".join(c if c.isalnum() or c in (' ', '.', '_') else '_' for c in user).rstrip()
SafeUser(user) ==
    RStrip([i \in 1..Len(user) |->
                IF user[i] \in AlNum \cup {" ", ".", "_"} THEN user[i] ELSE "_"])

\* f"results/user_contributions_{lang}_{safe_user}.csv"
FileName(lang, user) == lang \o <<"_">> \o SafeUser(user)

\* the rows csv.DictWriter writes before a contribution with a key that is
\* not among the keys of contribs[0] makes writerow raise ValueError
RECURSIVE RowsWritten(_, _, _, _)
RowsWritten(contribs, lang, user, i) ==
    IF i > Len(contribs) \/ (contribs[i].minor /\ ~contribs[1].minor) THEN <<>>
    ELSE <<[_Lang |-> lang, _User |-> user, revid |-> contribs[i].revid]>>
         \o RowsWritten(contribs, lang, user, i + 1)

WriteRaises(contribs) ==
    \E i \in 1..Len(contribs) : contribs[i].minor /\ ~contribs[1].minor

\* open(filename, 'w') and the rows: the file of that name holds the rows of
\* this pair, whatever it held before
WriteContribs(files, lang, user, contribs) ==
    (FileName(lang, user) :> RowsWritten(contribs, lang, user, 1)) @@ files

Tasks2 == DOMAIN p2

Start2(i) ==
    /\ p2[i].pc = "pending"
    /\ Cardinality({j \in Tasks2 : Running(p2[j])}) < MAX_WORKERS
    /\ p2' = [p2 EXCEPT ![i].pc = "info"]
    /\ UNCHANGED <<main_pc, p1, cache, locks, results_file, tmp_file, unique_pairs,
                   user_info_file, contrib_files, obs, args, ret>>

\* info = fetch_user_info(lang, user) or {}
FetchInfo(i) ==
    /\ p2[i].pc = "info"
    /\ \E outcome \in Outcomes :
        p2' = [p2 EXCEPT ![i].pc = "lock_info",
                         ![i].info = fetch_user_info(unique_pairs[i][1],
                                                     unique_pairs[i][2], outcome)]
    /\ UNCHANGED <<main_pc, p1, cache, locks, results_file, tmp_file, unique_pairs,
                   user_info_file, contrib_files, obs, args, ret>>

\* with user_info_lock: (acquire)
AcquireInfo(i) ==
    /\ p2[i].pc = "lock_info"
    /\ locks.info = NoTask
    /\ locks' = [locks EXCEPT !.info = i]
    /\ p2' = [p2 EXCEPT ![i].pc = "write_info"]
    /\ UNCHANGED <<main_pc, p1, cache, results_file, tmp_file, unique_pairs,
                   user_info_file, contrib_files, obs, args, ret>>

\* write_user_info(info) and the release of user_info_lock
WriteInfo(i) ==
    /\ p2[i].pc = "write_info"
    /\ user_info_file' = write_user_info(user_info_file,
            InfoRow(unique_pairs[i][1], unique_pairs[i][2], p2[i].info))
    /\ locks' = [locks EXCEPT !.info = NoTask]
    /\ p2' = [p2 EXCEPT ![i].pc = "contribs"]
    /\ UNCHANGED <<main_pc, p1, cache, results_file, tmp_file, unique_pairs,
                   contrib_files, obs, args, ret>>

\* contribs = fetch_user_contributions(...); `if contribs:`
FetchContribs(i) ==
    /\ p2[i].pc = "contribs"
    /\ LET pages == Contribs(unique_pairs[i][1], unique_pairs[i][2]) IN
       \E outcomes \in [Requests(pages) -> Outcomes] :
        LET r == fetch_user_contributions(pages, USER_CONTRIB_LIMIT, outcomes) IN
        p2' = [p2 EXCEPT ![i].pc = IF r.value # <<>> THEN "write_file" ELSE "done",
                         ![i].contribs = r.value]
    /\ UNCHANGED <<main_pc, p1, cache, locks, results_file, tmp_file, unique_pairs,
                   user_info_file, contrib_files, obs, args, ret>>

\* the per-user file is opened with 'w' and the rows are written
WriteFile(i) ==
    /\ p2[i].pc = "write_file"
    /\ LET lang == unique_pairs[i][1]
           user == unique_pairs[i][2]
       IN contrib_files' = WriteContribs(contrib_files, lang, user, p2[i].contribs)
    /\ p2' = [p2 EXCEPT ![i].pc = IF WriteRaises(p2[i].contribs) THEN "failed"
                                  ELSE "done"]
    /\ UNCHANGED <<main_pc, p1, cache, locks, results_file, tmp_file, unique_pairs,
                   user_info_file, obs, args, ret>>

\* the `with ThreadPoolExecutor` block of Phase 2 is left
LeavePhase2 ==
    /\ main_pc = "phase2"
    /\ \A i \in Tasks2 : Finished(p2[i])
    /\ main_pc' = WorkerError(\E i \in Tasks2 : p2[i].pc = "failed", "finished")
    /\ UNCHANGED <<p1, cache, locks, results_file, tmp_file, unique_pairs,
                   p2, user_info_file, contrib_files, obs, args, ret>>

-----------------------------------------------------------------------------
(* The run *)

SysInit ==
    /\ main_pc = "phase1"
    /\ p1 = [t \in Tasks1 |-> Pending1]
    /\ cache = <<>>
    /\ locks = [main |-> NoTask, tmp |-> NoTask, info |-> NoTask]
    /\ results_file = <<>>
    /\ tmp_file = <<>>
    /\ unique_pairs = <<>>
    /\ p2 = <<>>
    /\ user_info_file = <<>>
    /\ contrib_files = <<>>
    /\ obs = [scans |-> [k \in AllKeys |-> 0], returned |-> [k \in AllKeys |-> {}],
              evicted |-> {}, memo |-> {}, rescans |-> {}, absent |-> {},
              pairs |-> {}]

Init == SysInit /\ args = <<>> /\ ret = <<>>

Next ==
    \/ \E t \in Tasks1 : Start1(t)
    \/ \E t \in Tasks1 : FetchUsage(t)
    \/ \E t \in Tasks1 : Lookup(t)
    \/ \E t \in Tasks1 : Scan(t)
    \/ \E t \in Tasks1 : AcquireMain(t)
    \/ \E t \in Tasks1 : WriteRow(t)
    \/ \E t \in Tasks1 : AcquireTmp(t)
    \/ \E t \in Tasks1 : WritePair(t)
    \/ LeavePhase1
    \/ Dedup
    \/ \E i \in Tasks2 : Start2(i)
    \/ \E i \in Tasks2 : FetchInfo(i)
    \/ \E i \in Tasks2 : AcquireInfo(i)
    \/ \E i \in Tasks2 : WriteInfo(i)
    \/ \E i \in Tasks2 : FetchContribs(i)
    \/ \E i \in Tasks2 : WriteFile(i)
    \/ LeavePhase2

Spec == Init /\ [][Next]_vars

\* every thread that can take a step eventually takes one
FairSpec == Spec /\ WF_vars(Next)

-----------------------------------------------------------------------------
(* Function-level specifications: the arguments are drawn from bounded     *)
(* sets in the initial state and one action applies the function.          *)

SeqsUpTo(S, n) == UNION {[1..k -> S] : k \in 0..n}

\* pages of the given sizes; the items are numbered through from 1
RECURSIVE Numbered(_, _)
Numbered(sizes, from) ==
    IF sizes = <<>> THEN <<>>
    ELSE <<[i \in 1..Head(sizes) |-> from + i]>>
         \o Numbered(Tail(sizes), from + Head(sizes))

PageShapes == SeqsUpTo(0..MaxPageLen, MaxPages)

\* all requests answered "ok", but request k (if any) answered `kind`
FaultAt(k, kind) == [n \in 1..(MaxPages + 2) |-> IF n = k THEN kind ELSE "ok"]

FaultPlans == {AllOk} \cup {FaultAt(k, kind) : k \in 1..MaxPages,
                                                kind \in Outcomes \ {"ok"}}

FirstFault(outcomes) ==
    IF \E n \in DOMAIN outcomes : outcomes[n] # "ok"
    THEN Min({n \in DOMAIN outcomes : outcomes[n] # "ok"})
    ELSE 0

(* find_introduction_user on every short history *)

TestContents == {<<>>, <<"a">>, <<"b">>, <<"a", "b">>, <<"b", "a">>}
TestUrls == {<<>>, <<"a">>, <<"a", "b">>}
TestEditors == << <<"A">>, <<>>, <<"C">>, <<"D">>, <<"E">> >>

\* the revisions with the given contents, split into pages of `size`
RECURSIVE Chunk(_, _)
Chunk(revs, size) ==
    IF revs = <<>> THEN <<>>
    ELSE <<Prefix(revs, size)>> \o Chunk(SubSeq(revs, size + 1, Len(revs)), size)

TestHistory(contents, size) ==
    Chunk([i \in 1..Len(contents) |->
              [timestamp |-> i, user |-> TestEditors[i], content |-> contents[i]]],
          size)

FindInit ==
    /\ SysInit
    /\ args \in {[url |-> u, hist |-> TestHistory(cs, size)] :
                    u \in TestUrls, cs \in SeqsUpTo(TestContents, MaxRevs),
                    size \in 1..MaxPageLen}
    /\ ret = <<>>

CallFind ==
    /\ ret = <<>>
    /\ ret' = <<find_introduction_user(args.url, args.hist, AllOk)>>
    /\ UNCHANGED <<sysvars, args>>

SpecFind == FindInit /\ [][CallFind]_vars

(* the two generators, consumed to their end *)

TestItem(i) == [url |-> <<"u">>, title |-> [j \in 1..i |-> IF j = 1 THEN "P" ELSE " "]]
TestRev(i) == [timestamp |-> i, user |-> <<"A">>, content |-> <<"a">>]
TestContrib(i) == [revid |-> i, minor |-> FALSE]

\* the stream of the given page sizes for the query `q`
TestPages(q, shape) ==
    LET ids == Numbered(shape, 0) IN
    [p \in 1..Len(ids) |->
        [i \in 1..Len(ids[p]) |->
            CASE q = "usage" -> TestItem(ids[p][i])
              [] q = "revisions" -> TestRev(ids[p][i])
              [] OTHER -> TestContrib(ids[p][i])]]

PagesInit ==
    /\ SysInit
    /\ args \in {[shape |-> sh, outcomes |-> o] : sh \in PageShapes, o \in FaultPlans}
    /\ ret = <<>>

CallGenerators ==
    /\ ret = <<>>
    /\ ret' = <<[usage |-> fetch_exturlusage(EN, "d1.org",
                              TestPages("usage", args.shape), args.outcomes),
                 revisions |-> fetch_all_revisions(TestPages("revisions", args.shape),
                                                   args.outcomes)]>>
    /\ UNCHANGED <<sysvars, args>>

SpecPages == PagesInit /\ [][CallGenerators]_vars

(* fetch_user_contributions *)

ContribInit ==
    /\ SysInit
    /\ args \in {[pages |-> TestPages("contribs", sh), limit |-> l, outcomes |-> o] :
                    sh \in PageShapes, l \in 1..MaxLimit, o \in FaultPlans}
    /\ ret = <<>>

CallContributions ==
    /\ ret = <<>>
    /\ ret' = <<fetch_user_contributions(args.pages, args.limit, args.outcomes)>>
    /\ UNCHANGED <<sysvars, args>>

SpecContrib == ContribInit /\ [][CallContributions]_vars

(* answers that lack expected fields *)

\* the entry without the key `key`
Drop(rev, key) == [f \in (DOMAIN rev) \ {key} |-> rev[f]]

\* the history with the key dropped from revision `at`
DropAt(contents, size, at, key) ==
    Chunk([i \in 1..Len(contents) |->
              LET rev == [timestamp |-> i, user |-> TestEditors[i],
                          content |-> contents[i]]
              IN IF i = at THEN Drop(rev, key) ELSE rev],
          size)

\* a usage stream of two pages of one item
TwoPages == TestPages("usage", <<1, 1>>)

MalformedInit ==
    /\ SysInit
    /\ args \in UNION {{[url |-> u, hist |-> DropAt(cs, size, at, key),
                          at |-> at, key |-> key, noquery |-> k] :
                            u \in TestUrls, size \in 1..MaxPageLen, at \in 1..Len(cs),
                            key \in {"timestamp", "content", "user"}, k \in 1..2} :
                        cs \in SeqsUpTo(TestContents, MaxRevs)}
    /\ ret = <<>>

\* the three queries, each against an answer that lacks a field
CallMalformed ==
    /\ ret = <<>>
    /\ ret' = <<[find |-> find_introduction_user(args.url, args.hist, AllOk),
                 usage |-> fetch_exturlusage(EN, "d1.org", TwoPages,
                                             FaultAt(args.noquery, "noquery")),
                 info |-> fetch_user_info(EN, UserA, "noquery")]>>
    /\ UNCHANGED <<sysvars, args>>

SpecMalformed == MalformedInit /\ [][CallMalformed]_vars

(* process_user_pair for two editors, one after the other *)

\* user names of up to MaxNameLen characters, none at the ends a blank
TestNames ==
    {n \in SeqsUpTo({"A", "b", ".", "-", ",", " "}, MaxNameLen) :
        n # <<>> /\ Head(n) # " " /\ n[Len(n)] # " "}

FilesInit ==
    /\ SysInit
    /\ args \in {[users |-> <<u, v>>, contribs |-> <<TestContrib(1), TestContrib(2)>>] :
                    u \in TestNames, v \in TestNames} \ {[users |-> <<u, u>>,
                        contribs |-> <<TestContrib(1), TestContrib(2)>>] : u \in TestNames}
    /\ ret = <<>>

\* the contribution file of the first pair is written, then that of the second
CallWriteFiles ==
    /\ ret = <<>>
    /\ ret' = <<WriteContribs(WriteContribs(<<>>, EN, args.users[1], args.contribs),
                              EN, args.users[2], args.contribs)>>
    /\ UNCHANGED <<sysvars, args>>

SpecFiles == FilesInit /\ [][CallWriteFiles]_vars

-----------------------------------------------------------------------------
(* Claims *)

\* C1: single-flight.  As long as a key has not been evicted, at most one
\* revision scan is started for it, however many tasks ask for it.
C1_SingleFlight ==
    \A k \in AllKeys : k \notin obs.evicted => obs.scans[k] <= 1

\* C2: find_introduction_user returns the user and timestamp of the first
\* revision that contains the url while the revision before it (or the
\* state before the history) does not, and (None, None) exactly when no
\* revision contains the url.
C2_FirstIntroduction ==
    ret # <<>> =>
        LET revs == Flatten(args.hist)
            present(i) == Contains(revs[i].content, args.url)
            intro == {i \in 1..Len(revs) : present(i) /\ (i = 1 \/ ~present(i - 1))}
        IN /\ ~ret[1].raised
           /\ ret[1].value.none <=> (\A i \in 1..Len(revs) : ~present(i))
           /\ IF intro = {} THEN ret[1].value = NoneResult
              ELSE ret[1].value = [none |-> FALSE, user |-> revs[Min(intro)].user,
                                   timestamp |-> revs[Min(intro)].timestamp]

\* a link added, removed and added again is attributed to the first addition
C2_Witness ==
    /\ ret # <<>>
    /\ LET revs == Flatten(args.hist) IN
       \E i, j, k \in 1..Len(revs) :
          /\ i < j /\ j < k
          /\ Contains(revs[i].content, args.url)
          /\ ~Contains(revs[j].content, args.url)
          /\ Contains(revs[k].content, args.url)
          /\ ret[1].value.timestamp = revs[i].timestamp
          /\ Len(args.hist) > 1

\* C3: all calls of find_introduction_user_cached for one key return the
\* same value during a run, faults included.
C3_ConsistentResults ==
    \A k \in AllKeys : Cardinality(obs.returned[k]) <= 1

Count(seq, x) == Cardinality({i \in 1..Len(seq) : seq[i] = x})

\* C4: every (lang, user) pair written to the pair stream, however often, is
\* in the list read back exactly once, the list holds nothing else, and one
\* process_user_pair is submitted per entry of the list.
C4_PairOnce ==
    main_pc \in {"phase2", "finished"} =>
        /\ \A pair \in obs.pairs : Count(unique_pairs, pair) = 1
        /\ \A i \in 1..Len(unique_pairs) : unique_pairs[i] \in obs.pairs
        /\ DOMAIN p2 = 1..Len(unique_pairs)

\* two distinct pairs, one of them written to the stream more than once
C4_Witness ==
    /\ main_pc = "phase2"
    /\ Cardinality(obs.pairs) = 2
    /\ \E pair \in obs.pairs : Count(tmp_file, FormatPair(pair[1], pair[2])) >= 2

\* C5: the de-duplication and every Phase-2 task start only after every
\* Phase-1 task has finished (done or failed), and the list read back is
\* the de-duplication of everything Phase 1 wrote to the pair stream.
C5_PhaseOrder ==
    /\ main_pc # "phase1" => \A t \in Tasks1 : Finished(p1[t])
    /\ (\E i \in DOMAIN p2 : p2[i].pc # "pending") =>
            (main_pc \in {"phase2", "finished"} /\ \A t \in Tasks1 : Finished(p1[t]))
    /\ main_pc \in {"phase2", "finished"} => unique_pairs = UniquePairs(tmp_file)

\* a Phase-2 task runs after a Phase-1 task that wrote a pair near its end
C5_Witness ==
    /\ \E i \in DOMAIN p2 : Running(p2[i])
    /\ \E t \in Tasks1 : p1[t].pc = "done" /\ p1[t].count = 2
    /\ \E t \in Tasks1 : p1[t].pc = "failed"

\* what a Phase-1 / Phase-2 worker thread can do next
Step1(t) ==
    \/ Start1(t) \/ FetchUsage(t) \/ Lookup(t) \/ Scan(t)
    \/ AcquireMain(t) \/ WriteRow(t) \/ AcquireTmp(t) \/ WritePair(t)

Step2(i) ==
    \/ Start2(i) \/ FetchInfo(i) \/ AcquireInfo(i) \/ WriteInfo(i)
    \/ FetchContribs(i) \/ WriteFile(i)

\* C6: once a task of a phase has failed, the run is never stopped short of
\* its end: every sibling that has not finished can take its next step
\* (unless it waits for a lock, which a running task holds), main() can leave
\* the phase as soon as all its tasks are done or failed, and it leaves it
\* for the de-duplication (Phase 1) or the end of the run (Phase 2).
C6_FailureIsolation ==
    ((\E t \in Tasks1 : p1[t].pc = "failed") \/ (\E i \in DOMAIN p2 : p2[i].pc = "failed"))
    =>  /\ main_pc \in {"phase1", "dedup", "phase2", "finished"}
        /\ main_pc = "finished" \/ ENABLED Next
        /\ main_pc = "phase1" =>
              \A u \in Tasks1 :
                 \/ Finished(p1[u])
                 \/ ENABLED Step1(u)
                 \/ p1[u].pc = "lock_main" /\ locks.main \in Tasks1
                                           /\ p1[locks.main].pc = "write_row"
                 \/ p1[u].pc = "lock_tmp" /\ locks.tmp \in Tasks1
                                          /\ p1[locks.tmp].pc = "write_pair"
        /\ main_pc = "phase2" =>
              \A j \in DOMAIN p2 :
                 \/ Finished(p2[j])
                 \/ ENABLED Step2(j)
                 \/ p2[j].pc = "lock_info" /\ locks.info \in DOMAIN p2
                                           /\ p2[locks.info].pc = "write_info"
        /\ main_pc = "finished" =>
              /\ \A u \in Tasks1 : Finished(p1[u])
              /\ \A j \in DOMAIN p2 : Finished(p2[j])

\* a failed task in each phase beside a sibling that did its work
C6_Witness ==
    /\ main_pc = "finished"
    /\ \E t, u \in Tasks1 : p1[t].pc = "failed" /\ p1[u].pc = "done" /\ p1[u].count = 2
    /\ \E i, j \in DOMAIN p2 : p2[i].pc = "failed" /\ p2[j].pc = "done"

(* C7 - C8: SpecPages *)

Gens == {"usage", "revisions"}

\* what the generator ought to yield for the first n pages of the stream
ExpectedYield(g, shape, n) ==
    IF g = "usage"
    THEN UsageRecords(EN, "d1.org", Flatten(SubSeq(TestPages(g, shape), 1, n)))
    ELSE Flatten(SubSeq(TestPages(g, shape), 1, n))

\* C7: against a fault-free upstream with N + 1 pages each generator yields
\* the items of all pages, once each and in order, sends the first request
\* without token and every later one with the token of the page before, and
\* sends exactly N + 1 requests.
C7_PaginationComplete ==
    (ret # <<>> /\ args.outcomes = AllOk /\ Len(args.shape) >= 1) =>
        \A g \in Gens :
            LET r == ret[1][g]
                pages == TestPages(g, args.shape)
            IN /\ ~r.raised
               /\ r.yielded = ExpectedYield(g, args.shape, Len(pages))
               /\ Len(r.reqs) = Len(pages)
               /\ r.reqs[1] = NoToken
               /\ \A n \in 2..Len(r.reqs) :
                     r.reqs[n] = ServerPage(pages, r.reqs[n - 1]).cont

\* three pages, none of them empty
C7_Witness ==
    /\ ret # <<>> /\ args.outcomes = AllOk
    /\ Len(args.shape) = 3 /\ \A n \in 1..3 : args.shape[n] > 0
    /\ Len(ret[1].usage.yielded) > 3 /\ Len(ret[1].revisions.reqs) = 3

\* C8: when request k of a stream fails (transport exception or status other
\* than 200), the generator ends without raising, has yielded exactly the
\* items of pages 1..k-1 and has sent no request after the k-th.
C8_FailClosed ==
    LET k == FirstFault(args.outcomes) IN
    (/\ ret # <<>>
     /\ k # 0 /\ args.outcomes[k] \in {"transport", "status"}
     /\ k <= Len(args.shape)) =>
        \A g \in Gens :
            LET r == ret[1][g] IN
            /\ ~r.raised
            /\ r.yielded = ExpectedYield(g, args.shape, k - 1)
            /\ Len(r.reqs) = k

\* the third request raises after two pages with items
C8_Witness ==
    /\ ret # <<>>
    /\ FirstFault(args.outcomes) = 3 /\ args.outcomes[3] = "transport"
    /\ Len(args.shape) = 3 /\ args.shape[1] > 0 /\ args.shape[2] > 0
    /\ Len(ret[1].usage.yielded) = args.shape[1] + args.shape[2]

(* C9 - C10: SpecContrib *)

\* the same answers, the faulty one replaced by a status fault
AsStatusFault(outcomes) ==
    [n \in DOMAIN outcomes |-> IF outcomes[n] = "ok" THEN "ok" ELSE "status"]

\* C9: a transport fault at request k of fetch_user_contributions returns
\* what a status fault at request k returns: the items of pages 1..k-1,
\* cut to the cap.
C9_TransportKeepsPartial ==
    LET k == FirstFault(args.outcomes) IN
    (ret # <<>> /\ k # 0 /\ args.outcomes[k] = "transport") =>
        ret[1].value = fetch_user_contributions(args.pages, args.limit,
                                                AsStatusFault(args.outcomes)).value

\* C10: against a fault-free upstream fetch_user_contributions returns the
\* first min(limit, total) contributions in server order.
C10_ContributionCap ==
    (ret # <<>> /\ args.outcomes = AllOk) =>
        LET all == Flatten(args.pages)
            n == IF Len(all) < args.limit THEN Len(all) ELSE args.limit
        IN /\ Len(ret[1].value) = n
           /\ ret[1].value = SubSeq(all, 1, n)

\* more contributions than the cap, the cap reached in the middle of a page
C10_Witness ==
    /\ ret # <<>> /\ args.outcomes = AllOk
    /\ Len(Flatten(args.pages)) > args.limit
    /\ Len(args.pages) >= 2 /\ Len(args.pages[1]) < args.limit
    /\ Len(args.pages[1]) + Len(args.pages[2]) > args.limit
    /\ Len(ret[1].value) = args.limit

(* C11: SpecMalformed *)

\* C11: an answer that lacks an expected field is "nothing found": no
\* exception leaves the query.  The usage stream ends at the answer without
\* "query" having yielded the pages before it, the user query gives the empty
\* info, and the introduction scan of a history with an entry that lacks
\* "timestamp", "slots" or "user" returns without raising.
C11_MalformedIsAbsent ==
    ret # <<>> =>
        /\ ~ret[1].usage.raised
        /\ Len(ret[1].usage.yielded) = args.noquery - 1
        /\ ret[1].info = EmptyInfo
        /\ ~ret[1].find.raised

\* C12: under fair scheduling main() eventually finishes, whatever faults
\* and task exceptions occur, and a row once written to the usage sink stays
\* in it: the sink only grows at its end.
C12_RunCompletes ==
    /\ <>(main_pc = "finished")
    /\ [][Len(results_file') >= Len(results_file)
          /\ SubSeq(results_file', 1, Len(results_file)) = results_file]_vars

\* the run ends after Phase 1 with no editor found: every scan was cut short,
\* one task failed after it had written a row
C12_Witness ==
    /\ main_pc = "finished"
    /\ unique_pairs = <<>> /\ p2 = <<>>
    /\ results_file # <<>>
    /\ \E t \in Tasks1 : p1[t].pc = "failed" /\ p1[t].count >= 1

(* C13: SpecFind *)

\* C13: the user of a usage record, when not empty, is the editor of a
\* revision of the page whose content is not empty and contains the url of
\* the record, and no earlier revision contains it; for every url, the empty
\* one (an item without 'url') included.
C13_IntroducerInvariant ==
    ret # <<>> =>
        LET record == Enrich([NoRecord EXCEPT !.url = args.url], ret[1].value)
            revs == Flatten(args.hist)
        IN record.user # <<>> =>
            \E i \in 1..Len(revs) :
                /\ revs[i].user = record.user
                /\ revs[i].timestamp = record.timestamp
                /\ revs[i].content # <<>>
                /\ Contains(revs[i].content, record.url)
                /\ \A j \in 1..(i - 1) : ~Contains(revs[j].content, record.url)

(* C14 - : Spec *)

\* C14: a Phase-1 task writes a (lang, user) line for a record exactly when
\* the lookup returned a non-empty editor name: the user of every row is the
\* name of a value the lookup returned for its key ('' for None), the pair
\* stream holds one line per row with a non-empty user (but for the tasks
\* that are about to write theirs), no line has an empty name, and no
\* Phase-2 task is submitted for an empty name.
C14_NonEmptyEditors ==
    /\ \A i \in 1..Len(results_file) :
          \E value \in obs.returned[Key(results_file[i])] :
              results_file[i] = Enrich(results_file[i], value)
    /\ Len(tmp_file)
          + Cardinality({t \in Tasks1 : p1[t].pc \in {"lock_tmp", "write_pair"}})
        = Cardinality({i \in 1..Len(results_file) : results_file[i].user # <<>>})
    /\ \A i \in 1..Len(tmp_file) :
          \E pair \in obs.pairs : pair[2] # <<>> /\ tmp_file[i] = FormatPair(pair[1], pair[2])
    /\ \A i \in 1..Len(unique_pairs) : unique_pairs[i][2] # <<>>
    /\ DOMAIN p2 \subseteq 1..Len(unique_pairs)

\* Phase 2 runs after a row was written whose introducing revision has its
\* user hidden: the row has the timestamp of the revision and no user
C14_Witness ==
    /\ \E i \in 1..Len(results_file) :
          results_file[i].user = <<>> /\ results_file[i].timestamp = 5
    /\ \E j \in DOMAIN p2 : Running(p2[j])

\* C15: at most one thread is inside a write to the usage sink, at most one
\* inside a write to the pair stream and at most one inside write_user_info,
\* and it is the holder of the lock of the sink; every step that changes a
\* sink appends one whole row (for the profile sink, the header before the
\* first row) and is taken by the thread inside the write.
C15_SerializedWrites ==
    /\ [](/\ \A t, u \in Tasks1 :
              /\ (p1[t].pc = "write_row" /\ p1[u].pc = "write_row") => t = u
              /\ (p1[t].pc = "write_pair" /\ p1[u].pc = "write_pair") => t = u
              /\ p1[t].pc = "write_row" => locks.main = t
              /\ p1[t].pc = "write_pair" => locks.tmp = t
           /\ \A i, j \in DOMAIN p2 :
              /\ (p2[i].pc = "write_info" /\ p2[j].pc = "write_info") => i = j
              /\ p2[i].pc = "write_info" => locks.info = i)
    /\ [][/\ (results_file' # results_file =>
                (\E t \in Tasks1 : /\ p1[t].pc = "write_row"
                                    /\ results_file' = Append(results_file, p1[t].record)))
           /\ (tmp_file' # tmp_file =>
                (\E u \in Tasks1 : /\ p1[u].pc = "write_pair"
                                    /\ Len(tmp_file') = Len(tmp_file) + 1
                                    /\ SubSeq(tmp_file', 1, Len(tmp_file)) = tmp_file))
           /\ (user_info_file' # user_info_file =>
                (\E i \in DOMAIN p2 :
                    /\ p2[i].pc = "write_info"
                    /\ \E row \in {InfoRow(unique_pairs[i][1], unique_pairs[i][2],
                                             p2[i].info)} :
                          user_info_file' = IF user_info_file = <<>>
                                            THEN <<HeaderRow, row>>
                                            ELSE Append(user_info_file, row)))]_vars

\* one task is inside the write to the usage sink, after an earlier row,
\* while the other waits for main_writer_lock
C15_Witness ==
    /\ results_file # <<>>
    /\ \E t, u \in Tasks1 : /\ p1[t].pc = "write_row" /\ locks.main = t
                              /\ p1[u].pc = "lock_main"

\* C16: a call of find_introduction_user_cached for a key that an earlier
\* call has returned, and that was not evicted since, starts no scan and
\* returns the value stored for the key; the cache never holds more than
\* maxsize keys, nor a key twice; a call for a key that was evicted and not
\* returned again since starts another scan of it.
C16_Memoization ==
    /\ [](/\ Len(cache) <= maxsize
           /\ \A i, j \in 1..Len(cache) : cache[i].key = cache[j].key => i = j)
    /\ [][\A t \in Tasks1 :
            (p1[t].pc = "lookup" /\ p1'[t] # p1[t]) =>
                LET key == Key(p1[t].record) IN
                /\ key \in obs.memo =>
                      /\ obs'.scans = obs.scans
                      /\ CacheHas(cache, key)
                      /\ CacheGet(cache, key) \in obs.returned[key]
                      /\ p1'[t].pc = "lock_main"
                      /\ p1'[t].record = Enrich(p1[t].record, CacheGet(cache, key))
                /\ (key \in obs.evicted /\ key \notin obs.memo) =>
                      /\ obs'.scans[key] = obs.scans[key] + 1
                      /\ p1'[t].pc = "scan"]_vars

\* a key is looked up again after its eviction and scanned a second time,
\* the cache being full
C16_Witness ==
    /\ Len(cache) = maxsize
    /\ \E key \in obs.rescans : obs.scans[key] = 2 /\ key \notin obs.memo
    /\ \E t \in Tasks1 : p1[t].pc = "scan" /\ Key(p1[t].record) \in obs.rescans

(* C17: SpecContrib *)

\* the contributions of the first n pages
Collected(pages, n) == Flatten(SubSeq(pages, 1, n))

\* C17: against a fault-free upstream fetch_user_contributions requests page
\* n + 1 exactly when page n carried a continuation token and fewer than
\* `limit` contributions are collected after it: it sends one request per
\* page up to the first page that reaches the cap or has no token.
C17_StopsAtCap ==
    (ret # <<>> /\ args.outcomes = AllOk) =>
        LET sent == Len(ret[1].reqs)
            more(n) == /\ ServerPage(args.pages, n).cont # NoToken
                       /\ Len(Collected(args.pages, n)) < args.limit
        IN /\ sent >= 1
           /\ ret[1].reqs[1] = NoToken
           /\ \A n \in 1..(sent - 1) : more(n) /\ ret[1].reqs[n + 1] = n + 1
           /\ ~more(sent)

\* the cap is reached on the second page of three: the third is not requested
C17_Witness ==
    /\ ret # <<>> /\ args.outcomes = AllOk
    /\ Len(args.pages) = 3 /\ Len(ret[1].reqs) = 2
    /\ Len(args.pages[1]) < args.limit
    /\ Len(Collected(args.pages, 2)) >= args.limit
    /\ Len(args.pages[3]) > 0

(* C18: SpecFind *)

\* the number of the page that holds revision i of the history
PageOf(hist, i) == Min({n \in 1..Len(hist) : Len(Collected(hist, n)) >= i})

\* C18: find_introduction_user goes through the revisions once, in order,
\* and stops at the first one that introduces the url: it has then examined
\* the revisions up to that one and requested the pages up to the one which
\* holds it, each once and in order; without an introduction it examines
\* every revision and requests every page.
C18_StopsEarly ==
    ret # <<>> =>
        LET revs == Flatten(args.hist)
            present(i) == Contains(revs[i].content, args.url)
            intro == {i \in 1..Len(revs) : present(i) /\ (i = 1 \/ ~present(i - 1))}
            sent == Len(ret[1].reqs)
        IN /\ sent >= 1 /\ ret[1].reqs[1] = NoToken
           /\ \A n \in 2..sent : ret[1].reqs[n] = n
           /\ ret[1].examined >= Len(Collected(args.hist, sent - 1))
           /\ IF intro = {}
              THEN /\ ret[1].examined = Len(revs)
                   /\ sent = IF args.hist = <<>> THEN 1 ELSE Len(args.hist)
              ELSE /\ ret[1].examined = Min(intro)
                   /\ sent = PageOf(args.hist, Min(intro))

\* the url is introduced on the second of three pages: the third is not
\* requested and its revision not examined
C18_Witness ==
    /\ ret # <<>>
    /\ Len(args.hist) = 3
    /\ ~ret[1].value.none
    /\ Len(ret[1].reqs) = 2 /\ ret[1].examined = 2

(* C19: Spec *)

\* C19: when a scan for a key is cut short by a failed request before the
\* url was seen, find_introduction_user returns (None, None) and the record
\* gets an empty user and timestamp; the value is stored in the cache and
\* stays there until the key is evicted, and every call for the key until
\* then returns (None, None) without a scan.
C19_TruncatedMemoized ==
    /\ [](\A key \in obs.absent :
              CacheHas(cache, key) /\ CacheGet(cache, key) = NoneResult)
    /\ [][\A t \in Tasks1 :
            LET key == Key(p1[t].record) IN
            /\ (p1[t].pc = "scan" /\ p1'[t] # p1[t] /\ key \in obs'.absent \ obs.absent) =>
                    /\ p1'[t].pc = "lock_main"
                    /\ p1'[t].record.user = <<>> /\ p1'[t].record.timestamp = 0
                    /\ NoneResult \in obs'.returned[key]
            /\ (p1[t].pc = "lookup" /\ p1'[t] # p1[t] /\ key \in obs.absent) =>
                    /\ obs'.scans = obs.scans
                    /\ p1'[t].pc = "lock_main"
                    /\ p1'[t].record = Enrich(p1[t].record, NoneResult)]_vars

(* C20: SpecFiles *)

\* C20: two distinct (lang, user) pairs with contributions are written to
\* two distinct files, and after both writes the file of each pair holds
\* the rows of that pair.
C20_NoClobber ==
    ret # <<>> =>
        /\ FileName(EN, args.users[1]) # FileName(EN, args.users[2])
        /\ \A k \in 1..2 :
              LET name == FileName(EN, args.users[k]) IN
              /\ name \in DOMAIN ret[1]
              /\ Len(ret[1][name]) = Len(args.contribs)
              /\ \A i \in 1..Len(ret[1][name]) : ret[1][name][i]._User = args.users[k]

====
